---- MODULE Spec2Model ----
(***************************************************************************)
(* Canvas thumbnail plugin (src/main.ts, src/unnamed/part_000 = utils.ts). *)
(*                                                                         *)
(* The plugin scans the canvas documents of a vault for their first image  *)
(* node (scanCanvasFiles), keeps the result in canvasWithThumbnail, and    *)
(* decorates the cover of matching cards in the DOM (addCardThumbnails).   *)
(* Scans and decorations are driven by host events through one timer       *)
(* handle (updateTimeout).  Asynchronous handlers are suspended at their   *)
(* awaits; every step between two awaits is one atomic action.             *)
(*                                                                         *)
(* Strings the code takes apart (canvas paths, card names) are sequences   *)
(* of tokens; strings it only carries around (image paths) are strings.    *)
(***************************************************************************)
EXTENDS Integers, Sequences, FiniteSets, Bags, TLC

\* ------------------------------------------------------------------ bounds

\* longest node list of a canvas document in the scanner's input space
MaxNodes == 2
\* asynchronous handlers (scans, toggle handlers) suspended at the same time
MaxTasks == 2
\* cards the host renders
MaxCards == 1
\* scheduleUpdate() calls of one burst; changes of the toggle
MaxCalls == 3
\* decoration passes observed in the reconciler's input space
MaxPasses == 2
\* cards in the reconciler's input space
MaxShown == 2
\* map entries in the reconciler's input space
MaxEntries == 2
\* the clock stops here (unit: 100 ms)
MaxTime == 24

\* ------------------------------------------------------- program constants

\* setTimeout delays, in units of 100 ms
DecorateDelay == 2
UpdateDelay == 5
CanvasDelay == 10

\* ------------------------------------------------------------------ strings

\* the absent value of a token string (null / undefined)
Null == <<"null">>
\* the absent value of a plain string (a missing attribute)
NoAttr == "null"

RECURSIVE IndexFrom(_, _, _)
\* first index >= i at which sub occurs in s, 0 when there is none
IndexFrom(s, sub, i) ==
    IF i + Len(sub) - 1 > Len(s) THEN 0
    ELSE IF SubSeq(s, i, i + Len(sub) - 1) = sub THEN i
    ELSE IndexFrom(s, sub, i + 1)

\* String.prototype.includes
Includes(s, sub) == IndexFrom(s, sub, 1) # 0

\* String.prototype.replace(pattern, '') with a string pattern: the first
\* occurrence only
ReplaceFirst(s, pat) ==
    LET i == IndexFrom(s, pat, 1)
    IN  IF i = 0 THEN s
        ELSE SubSeq(s, 1, i - 1) \o SubSeq(s, i + Len(pat), Len(s))

RECURSIVE LastSegment(_)
\* filePath.split('/').pop()
LastSegment(s) ==
    IF \E i \in 1..Len(s) : s[i] = "/"
    THEN LastSegment(Tail(s))
    ELSE s

RECURSIVE TrimLeft(_)
TrimLeft(s) == IF s # <<>> /\ Head(s) = " " THEN TrimLeft(Tail(s)) ELSE s

RECURSIVE TrimRight(_)
TrimRight(s) ==
    IF s # <<>> /\ s[Len(s)] = " " THEN TrimRight(SubSeq(s, 1, Len(s) - 1)) ELSE s

\* String.prototype.trim
Trim(s) == TrimLeft(TrimRight(s))

\* String.prototype.toLowerCase on the extensions of the vault
ToLowerCase(s) ==
    CASE s = "JPG" -> "jpg"
      [] s = "PNG" -> "png"
      [] OTHER -> s

\* -------------------------------------------------------------------- vault

pictureExtensions == {"jpg", "jpeg", "png", "webp", "bmp", "svg", "gif", "ico"}

\* What the vault holds besides canvas documents: files (TFile) and a folder
\* (TFolder, which has no extension property).
VaultEntries ==
    { [path |-> "cover.png", folder |-> FALSE, extension |-> "png"],
      [path |-> "pic.JPG",   folder |-> FALSE, extension |-> "JPG"],
      [path |-> "other.pdf", folder |-> FALSE, extension |-> "pdf"],
      [path |-> "README",    folder |-> FALSE, extension |-> ""],
      [path |-> "Assets",    folder |-> TRUE,  extension |-> "undefined"] }

\* vault.getAbstractFileByPath: a file, a folder, or null
getAbstractFileByPath(p) ==
    IF \E e \in VaultEntries : e.path = p
    THEN LET e == CHOOSE e \in VaultEntries : e.path = p
         IN  [found |-> TRUE, path |-> e.path, folder |-> e.folder,
              extension |-> e.extension]
    ELSE [found |-> FALSE, path |-> p, folder |-> FALSE, extension |-> ""]

\* the paths a file node may name: the vault's, one that is not there, none
NodeTargets == {e.path : e \in VaultEntries} \cup {"gone.png", ""}

Nodes ==
    {[type |-> "text", file |-> ""]} \cup
    {[type |-> "file", file |-> p] : p \in NodeTargets}

NodeLists == UNION {[1..n -> Nodes] : n \in 0..MaxNodes}

\* What vault.read and JSON.parse give for a canvas document:
\*   ok        an object whose nodes field is the array nodes
\*   nonarray  an object without a nodes array
\*   parsefail text JSON.parse throws on
\*   readfail  vault.read rejects
Doc(kind, nodes) == [kind |-> kind, nodes |-> nodes]
BrokenDocs == {Doc("nonarray", <<>>), Doc("parsefail", <<>>), Doc("readfail", <<>>)}
AllDocs == {Doc("ok", ns) : ns \in NodeLists} \cup BrokenDocs

\* canvas documents of the vault (token strings)
PathAlpha == <<"Projects", "/", "Alpha", ".canvas">>
PathBeta == <<"Beta", ".canvas">>
PathAlphaBeta == <<"Alpha", "Beta", ".canvas">>
PathOdd == <<"Alpha", ".canvas", "Beta", ".canvas">>

\* ---------------------------------------------------------------- variables

VARIABLES
    files,                \* canvas documents of the vault, in getFiles() order
    contents,             \* canvas path -> what reading and parsing it gives
    canvasWithThumbnail,  \* the Map, as its entries in insertion order
    settings,             \* [enableRealTimeUpdate]
    updateTimeout,        \* the timer handle (0: undefined)
    timers,               \* timers pending in the host: [id, kind, due]
    cardObserver,         \* the observer handle (0: undefined)
    observers,            \* ids of the connected MutationObservers
    tasks,                \* the bag of asynchronous handlers suspended at
                          \* an await
    dom,                  \* [container, cards]
    adapterFS,            \* vault.adapter instanceof FileSystemAdapter
    phase,                \* "loaded" (onload done), "ready" (initializeCards
                          \* has been called), "unloaded"
    updatedCount,         \* the count the last decoration pass logged
    now,                  \* the clock, in units of 100 ms
    \* history variables
    dirty,                \* a 'modify' of a canvas document was handled and
                          \* no scan has started since
    needReconcile,        \* a scan returned and no pass has run since
    lastScan,             \* [valid, produced]: valid in the state a scan
                          \* returned in, with the entries that scan wrote
    calls,                \* calls counted so far: scheduleUpdate() in a
                          \* burst, the toggle's onChange in SpecSettings
    lastCall,             \* time of the last of them
    passes,               \* decoration passes so far
    passTime,             \* time of the last of them
    prevDom               \* the DOM before the last decoration pass

vaultVars == <<files, contents>>
schedVars == <<updateTimeout, timers>>
obsVars == <<cardObserver, observers>>
histVars == <<dirty, needReconcile>>
burstVars == <<calls, lastCall, passes, passTime, prevDom>>
vars == <<files, contents, canvasWithThumbnail, settings, updateTimeout, timers,
          cardObserver, observers, tasks, dom, adapterFS, phase, updatedCount,
          now, dirty, needReconcile, lastScan, calls, lastCall, passes,
          passTime, prevDom>>

\* ------------------------------------------------------------------ the Map

MapHas(m, k) == \E i \in 1..Len(m) : m[i].k = k
MapGet(m, k) == (m[CHOOSE i \in 1..Len(m) : m[i].k = k]).v
\* Map.prototype.set: an existing key keeps its place
MapSet(m, k, v) ==
    IF MapHas(m, k)
    THEN [i \in 1..Len(m) |-> IF m[i].k = k THEN [k |-> k, v |-> v] ELSE m[i]]
    ELSE Append(m, [k |-> k, v |-> v])
MapEntries(m) == {m[i] : i \in 1..Len(m)}

\* ------------------------------------------------------------------ scanner

\* the TFiles of the vault that are not canvas documents
OtherFiles ==
    << [path |-> <<"cover.png">>, extension |-> "png"],
       [path |-> <<"other.pdf">>, extension |-> "pdf"] >>

\* vault.getFiles()
getFiles == [i \in 1..Len(files) |-> [path |-> files[i], extension |-> "canvas"]]
            \o OtherFiles

\* allFiles.filter(file => file.extension === 'canvas')
canvasFiles == SelectSeq(getFiles, LAMBDA f : f.extension = "canvas")

Outcome(threw, found, path) == [threw |-> threw, found |-> found, path |-> path]

RECURSIVE NodeLoop(_, _)
\* for (const node of canvasData.nodes): the first file node whose target is
\* in the vault and has a picture extension; a target without an extension
\* property (a folder) throws at .toLowerCase()
NodeLoop(nodes, i) ==
    IF i > Len(nodes) THEN Outcome(FALSE, FALSE, "")
    ELSE LET node == nodes[i]
             nodeFile == getAbstractFileByPath(node.file)
         IN  IF node.type = "file" /\ node.file # "" /\ nodeFile.found
             THEN IF nodeFile.folder THEN Outcome(TRUE, FALSE, "")
                  ELSE IF ToLowerCase(nodeFile.extension) \in pictureExtensions
                       THEN Outcome(FALSE, TRUE, nodeFile.path)
                       ELSE NodeLoop(nodes, i + 1)
             ELSE NodeLoop(nodes, i + 1)

\* the body of the try block for one canvas document
TryDocument(doc) ==
    CASE doc.kind = "readfail" -> Outcome(TRUE, FALSE, "")
      [] doc.kind = "parsefail" -> Outcome(TRUE, FALSE, "")
      [] doc.kind = "nonarray" -> Outcome(FALSE, FALSE, "")
      [] OTHER -> NodeLoop(doc.nodes, 1)

\* mutant: the try block around the loop, so that a throw ends the scan
NextDocumentAbort(i, n, threw) == IF threw THEN n + 1 ELSE i + 1

\* The catch is inside the for loop: whatever the document did, the loop
\* goes on with the next one.
NextDocument(i, n, threw) == i + 1

RECURSIVE ScanFrom(_, _, _, _)
\* the for loop of scanCanvasFiles from document i on, run without
\* interruption over the documents fs with the contents cs
ScanFrom(fs, cs, i, m) ==
    IF i > Len(fs) THEN m
    ELSE LET r == TryDocument(cs[fs[i]])
         IN  ScanFrom(fs, cs, NextDocument(i, Len(fs), r.threw),
                      IF r.found THEN MapSet(m, fs[i], r.path) ELSE m)

\* the map one uninterrupted scanCanvasFiles() leaves
ScanOf(fs, cs) == ScanFrom(fs, cs, 1, <<>>)

\* ------------------------------------------------------------------ the DOM

Card(name, cover, inside) ==
    [name |-> name, cover |-> cover, inside |-> inside,
     marker |-> Null, imagePath |-> NoAttr, bg |-> ""]

\* adapter.getResourcePath
getResourcePath(imagePath) ==
    CASE imagePath = "cover.png" -> "app://cover.png"
      [] imagePath = "pic.JPG" -> "app://pic.JPG"
      [] OTHER -> "app://other"

\* filePath.split('/').pop()?.replace('.canvas', '') || ''
getFileNameFromPath(filePath) == ReplaceFirst(LastSegment(filePath), <<".canvas">>)

\* one card's test in findCardByFileName; name is Null when the card has no
\* [data-property="file.name"] element
CardMatches(card, fileName) ==
    /\ card.inside
    /\ card.name # Null
    /\ (Trim(card.name) = fileName \/ Includes(Trim(card.name), fileName))

\* index of the first card of the container that matches, 0 for null
findCardByFileName(cards, fileName) ==
    IF \E i \in 1..Len(cards) : CardMatches(cards[i], fileName)
    THEN CHOOSE i \in 1..Len(cards) :
            /\ CardMatches(cards[i], fileName)
            /\ \A j \in 1..(i - 1) : ~CardMatches(cards[j], fileName)
    ELSE 0

\* the cover of card c after setCardThumbnail
setCardThumbnail(adapterOk, imagePath, card, canvasPath) ==
    IF adapterOk
    THEN [card EXCEPT !.bg = getResourcePath(imagePath),
                      !.marker = canvasPath,
                      !.imagePath = imagePath]
    ELSE card

\* mutant: the marker is not looked at
UndecoratedAlways(card) == TRUE

\* !coverElement.getAttribute('data-canvas-thumbnail')
Undecorated(card) == card.marker = Null \/ card.marker = <<>>

\* the count after one entry of data.forEach
CountAfter(count, adapterOk) == count + 1

RECURSIVE ForEachEntry(_, _, _, _, _)
\* data.forEach(...) from entry i on: the cards and the count at the end
ForEachEntry(data, i, cards, count, adapterOk) ==
    IF i > Len(data) THEN [cards |-> cards, count |-> count]
    ELSE LET canvasPath == data[i].k
             imagePath == data[i].v
             c == findCardByFileName(cards, getFileNameFromPath(canvasPath))
         IN  IF c # 0 /\ cards[c].cover /\ Undecorated(cards[c])
             THEN ForEachEntry(data, i + 1,
                     [cards EXCEPT ![c] = setCardThumbnail(adapterOk, imagePath,
                                                           cards[c], canvasPath)],
                     CountAfter(count, adapterOk), adapterOk)
             ELSE ForEachEntry(data, i + 1, cards, count, adapterOk)

\* mutant: without the container the cards are looked for in the whole
\* document
addCardThumbnailsAnywhere(d, data, adapterOk) ==
    LET all == [i \in 1..Len(d.cards) |-> [d.cards[i] EXCEPT !.inside = TRUE]]
        r == ForEachEntry(data, 1, IF d.container THEN d.cards ELSE all, 0,
                          adapterOk)
    IN  [dom |-> [d EXCEPT !.cards = [i \in 1..Len(d.cards) |->
                     [r.cards[i] EXCEPT !.inside = d.cards[i].inside]]],
         count |-> r.count]

\* addCardThumbnails(plugin, data): the DOM afterwards and the count logged
addCardThumbnails(d, data, adapterOk) ==
    IF ~d.container THEN [dom |-> d, count |-> 0]
    ELSE LET r == ForEachEntry(data, 1, d.cards, 0, adapterOk)
         IN  [dom |-> [d EXCEPT !.cards = r.cards], count |-> r.count]

\* document.querySelectorAll('[data-canvas-thumbnail]') in onunload
UnloadCleanup(d) ==
    [d EXCEPT !.cards = [i \in 1..Len(d.cards) |->
        IF d.cards[i].marker # Null
        THEN [d.cards[i] EXCEPT !.bg = "", !.marker = Null]
        ELSE d.cards[i]]]

\* mutant: the marker attribute is left in place
clearAllThumbnailsKeepMarker(d) ==
    [d EXCEPT !.cards = [i \in 1..Len(d.cards) |->
        IF d.cards[i].marker # Null
        THEN [d.cards[i] EXCEPT !.bg = "", !.imagePath = NoAttr]
        ELSE d.cards[i]]]

\* clearAllThumbnails()
clearAllThumbnails(d) ==
    [d EXCEPT !.cards = [i \in 1..Len(d.cards) |->
        IF d.cards[i].marker # Null
        THEN [d.cards[i] EXCEPT !.bg = "", !.marker = Null, !.imagePath = NoAttr]
        ELSE d.cards[i]]]

\* ---------------------------------------------------------------- scheduler

\* setTimeout returns an id no pending timer has
FreshId(ts) == CHOOSE i \in 1..(Cardinality(ts) + 1) : \A t \in ts : t.id # i

\* clearTimeout(handle): no effect when no pending timer has that id
clearTimeout(ts, handle) == {t \in ts : t.id # handle}

\* mutant: the pending timer is left alone
scheduleUpdateNoClear(ts, handle) ==
    [timers |-> ts \cup {[id |-> FreshId(ts), kind |-> "update",
                          due |-> now + UpdateDelay]},
     handle |-> FreshId(ts)]

\* this.updateTimeout = setTimeout(callback, delay)
setTimeout(ts, kind, delay) ==
    [timers |-> ts \cup {[id |-> FreshId(ts), kind |-> kind, due |-> now + delay]},
     handle |-> FreshId(ts)]

\* mutant: the pending timer is left alone
updateCardThumbnailsNoClear(ts, handle) ==
    [timers |-> ts \cup {[id |-> FreshId(ts), kind |-> "decorate",
                          due |-> now + DecorateDelay]},
     handle |-> FreshId(ts)]

updateCardThumbnails(ts, handle) ==
    setTimeout(clearTimeout(ts, handle), "decorate", DecorateDelay)

scheduleUpdate(ts, handle) ==
    setTimeout(clearTimeout(ts, handle), "update", UpdateDelay)

scheduleCanvasUpdate(ts, handle) ==
    setTimeout(clearTimeout(ts, handle), "canvas", CanvasDelay)

RECURSIVE ScheduleUpdateTimes(_, _, _)
\* scheduleUpdate() called n times in a row
ScheduleUpdateTimes(n, ts, handle) ==
    IF n = 0 THEN [timers |-> ts, handle |-> handle]
    ELSE LET r == scheduleUpdate(ts, handle)
         IN  ScheduleUpdateTimes(n - 1, r.timers, r.handle)

\* ----------------------------------------------------------------- observer

FreshObserver(conn) == CHOOSE i \in 1..(Cardinality(conn) + 1) : i \notin conn

\* mutant: the old observer is not disconnected
setupCardObserverKeepOld(handle, conn) ==
    [handle |-> FreshObserver(conn), conn |-> conn \cup {FreshObserver(conn)}]

\* setupCardObserver(): workspace.containerEl always exists
setupCardObserver(handle, conn) ==
    LET rest == IF handle # 0 THEN conn \ {handle} ELSE conn
    IN  [handle |-> FreshObserver(rest), conn |-> rest \cup {FreshObserver(rest)}]

\* if (this.cardObserver) this.cardObserver.disconnect()
disconnectObserver(handle, conn) == IF handle # 0 THEN conn \ {handle} ELSE conn

\* -------------------------------------------------------------------- tasks

\* a scan awaiting vault.read of document idx, with the entries it has
\* written and what the document held when the read was called
ScanTask(origin, idx, produced, read) ==
    [kind |-> "scan", origin |-> origin, idx |-> idx, produced |-> produced,
     read |-> read, value |-> FALSE]
\* a toggle handler awaiting saveSettings()
ToggleTask(value) ==
    [kind |-> "toggle", origin |-> "none", idx |-> 0, produced |-> {},
     read |-> Doc("ok", <<>>), value |-> value]

Suspend(t) == tasks (+) SetToBag({t})
Resume(t) == tasks (-) SetToBag({t})
HasFreeSlot == BagCardinality(tasks) < MaxTasks
NoTasks == tasks = EmptyBag

\* What follows `await this.scanCanvasFiles()` in the three callers:
\* updateCardThumbnails(), and in initializeCards (origin "init") the
\* observer when enabled.  The timer's callback and the refresh button go on
\* alike (origin "rescan").
AfterScan(origin, ts, handle) ==
    /\ LET r == updateCardThumbnails(ts, handle)
       IN  timers' = r.timers /\ updateTimeout' = r.handle
    /\ IF origin = "init" /\ settings.enableRealTimeUpdate
       THEN LET o == setupCardObserver(cardObserver, observers)
            IN  cardObserver' = o.handle /\ observers' = o.conn
       ELSE UNCHANGED obsVars

NoScan == [valid |-> FALSE, produced |-> {}]

\* A scan returned, with the entries it wrote.
ScanReturned(produced) ==
    /\ lastScan' = [valid |-> TRUE, produced |-> produced]
    /\ needReconcile' = TRUE

\* scanCanvasFiles() up to its first await, called with the timers ts:
\* the map is cleared and the first read is under way.
BeginScan(origin, ts, handle) ==
    /\ canvasWithThumbnail' = <<>>
    /\ dirty' = FALSE
    /\ IF Len(canvasFiles) = 0
       THEN /\ UNCHANGED tasks
            /\ ScanReturned({})
            /\ AfterScan(origin, ts, handle)
       ELSE /\ HasFreeSlot
            /\ tasks' = Suspend(ScanTask(origin, 1, {},
                                         contents[canvasFiles[1].path]))
            /\ lastScan' = NoScan
            /\ timers' = ts
            /\ updateTimeout' = handle
            /\ UNCHANGED <<needReconcile, obsVars>>

\* ------------------------------------------------------------------ actions

Loaded == phase # "unloaded"

\* workspace.onLayoutReady(() => this.initializeCards())
InitializeCards ==
    /\ phase = "loaded"
    /\ phase' = "ready"
    /\ BeginScan("init", timers, updateTimeout)
    /\ UNCHANGED <<vaultVars, settings, dom, adapterFS, updatedCount>>

\* The read of document idx resolves or rejects, with what the document
\* held when the read was called or with what it holds now: the rest of that
\* iteration, then the next read, or the return and what the caller does
\* after its await.
ScanResume(t) ==
    /\ BagIn(t, tasks) /\ t.kind = "scan"
    /\ \E doc \in {t.read, contents[canvasFiles[t.idx].path]} :
       LET n == Len(canvasFiles)
           path == canvasFiles[t.idx].path
           r == TryDocument(doc)
           produced == IF r.found
                       THEN {e \in t.produced : e.k # path}
                            \cup {[k |-> path, v |-> r.path]}
                       ELSE t.produced
           next == NextDocument(t.idx, n, r.threw)
       IN  /\ canvasWithThumbnail' =
                IF r.found THEN MapSet(canvasWithThumbnail, path, r.path)
                ELSE canvasWithThumbnail
           /\ IF next <= n
              THEN /\ tasks' = Resume(t) (+)
                                  SetToBag({ScanTask(t.origin, next, produced,
                                      contents[canvasFiles[next].path])})
                   /\ lastScan' = NoScan
                   /\ UNCHANGED <<needReconcile, schedVars, obsVars>>
              ELSE /\ tasks' = Resume(t)
                   /\ ScanReturned(produced)
                   /\ AfterScan(t.origin, timers, updateTimeout)
    /\ UNCHANGED <<vaultVars, settings, dom, adapterFS, phase, updatedCount,
                   dirty>>

\* workspace 'layout-change'
LayoutChange ==
    /\ Loaded
    /\ LET r == scheduleUpdate(timers, updateTimeout)
       IN  timers' = r.timers /\ updateTimeout' = r.handle
    /\ UNCHANGED <<vaultVars, canvasWithThumbnail, settings, obsVars, tasks, dom,
                   adapterFS, phase, updatedCount, histVars>>

\* file instanceof TFile && file.extension === 'canvas'
IsCanvasFile(f) == f.extension = "canvas"

\* The document f gets the content doc; the vault's 'modify' handler runs
\* while the plugin is loaded.
Modify(f, doc) ==
    /\ IsCanvasFile(f)
    /\ contents[f.path] # doc
    /\ contents' = [contents EXCEPT ![f.path] = doc]
    /\ IF Loaded
       THEN /\ LET r == scheduleCanvasUpdate(timers, updateTimeout)
               IN  timers' = r.timers /\ updateTimeout' = r.handle
            /\ dirty' = TRUE
       ELSE UNCHANGED <<schedVars, dirty>>
    /\ UNCHANGED <<files, canvasWithThumbnail, settings, obsVars, tasks, dom,
                   adapterFS, phase, updatedCount, needReconcile>>

\* The host adds a card to the cards container; every connected observer's
\* callback finds a .bases-cards-item among the added nodes.
InsertCard(card) ==
    /\ Len(dom.cards) < MaxCards
    /\ dom' = [dom EXCEPT !.cards = Append(@, card)]
    /\ LET r == ScheduleUpdateTimes(Cardinality(observers), timers, updateTimeout)
       IN  timers' = r.timers /\ updateTimeout' = r.handle
    /\ UNCHANGED <<vaultVars, canvasWithThumbnail, settings, obsVars, tasks,
                   adapterFS, phase, updatedCount, histVars>>

\* the refresh button's onClick, up to its await
RefreshClick ==
    /\ Loaded
    /\ BeginScan("rescan", timers, updateTimeout)
    /\ UNCHANGED <<vaultVars, settings, dom, adapterFS, phase, updatedCount>>

\* the toggle's onChange, up to `await this.plugin.saveSettings()`
ToggleChange ==
    /\ Loaded
    /\ HasFreeSlot
    /\ settings' = [settings EXCEPT !.enableRealTimeUpdate = ~@]
    /\ tasks' = Suspend(ToggleTask(~settings.enableRealTimeUpdate))
    /\ UNCHANGED <<vaultVars, canvasWithThumbnail, schedVars, obsVars, dom,
                   adapterFS, phase, updatedCount, histVars>>

\* saveSettings() resolved: the rest of onChange
ToggleResume(t) ==
    /\ BagIn(t, tasks) /\ t.kind = "toggle"
    /\ tasks' = Resume(t)
    /\ IF t.value
       THEN LET o == setupCardObserver(cardObserver, observers)
            IN  cardObserver' = o.handle /\ observers' = o.conn
       ELSE /\ observers' = disconnectObserver(cardObserver, observers)
            /\ UNCHANGED cardObserver
    /\ UNCHANGED <<vaultVars, canvasWithThumbnail, settings, schedVars, dom,
                   adapterFS, phase, updatedCount, histVars>>

\* the timer armed by updateCardThumbnails fires: addCardThumbnails
FireDecorate(t) ==
    /\ t \in timers /\ t.kind = "decorate"
    /\ timers' = timers \ {t}
    /\ LET r == addCardThumbnails(dom, canvasWithThumbnail, adapterFS)
       IN  dom' = r.dom /\ updatedCount' = r.count
    /\ needReconcile' = FALSE
    /\ UNCHANGED <<vaultVars, canvasWithThumbnail, settings, updateTimeout,
                   obsVars, tasks, adapterFS, phase, dirty>>

\* the timer armed by scheduleUpdate fires: updateCardThumbnails()
FireUpdate(t) ==
    /\ t \in timers /\ t.kind = "update"
    /\ LET r == updateCardThumbnails(timers \ {t}, updateTimeout)
       IN  timers' = r.timers /\ updateTimeout' = r.handle
    /\ UNCHANGED <<vaultVars, canvasWithThumbnail, settings, obsVars, tasks, dom,
                   adapterFS, phase, updatedCount, histVars>>

\* the timer armed by scheduleCanvasUpdate fires: the callback up to the
\* first await of scanCanvasFiles
FireCanvas(t) ==
    /\ t \in timers /\ t.kind = "canvas"
    /\ BeginScan("rescan", timers \ {t}, updateTimeout)
    /\ UNCHANGED <<vaultVars, settings, dom, adapterFS, phase, updatedCount>>

\* onunload(); the host drops the registered events and the settings tab
Unload ==
    /\ Loaded
    /\ phase' = "unloaded"
    /\ observers' = disconnectObserver(cardObserver, observers)
    /\ timers' = IF updateTimeout # 0 THEN clearTimeout(timers, updateTimeout)
                 ELSE timers
    /\ dom' = UnloadCleanup(dom)
    /\ UNCHANGED <<vaultVars, canvasWithThumbnail, settings, updateTimeout,
                   cardObserver, tasks, adapterFS, updatedCount, histVars>>

\* ------------------------------------------------------- the running plugin

FileNode(p) == [type |-> "file", file |-> p]

\* what the documents hold while the plugin runs
EditedDocs ==
    { Doc("ok", <<FileNode("cover.png")>>),
      Doc("ok", <<FileNode("pic.JPG")>>),
      Doc("ok", <<>>) }

\* the cards the host renders
HostCards ==
    { Card(<<"Alpha">>, TRUE, TRUE), Card(<<"Beta">>, TRUE, TRUE) }

\* nothing pending, nothing recorded
Still ==
    /\ settings \in [enableRealTimeUpdate : BOOLEAN]
    /\ timers = {}
    /\ tasks = EmptyBag
    /\ updatedCount = 0
    /\ now = 0
    /\ dirty = FALSE
    /\ needReconcile = FALSE
    /\ lastScan = NoScan
    /\ calls = 0
    /\ lastCall = 0
    /\ passes = 0
    /\ passTime = 0

\* the plugin after onload(), before the workspace is ready
Fresh ==
    /\ Still
    /\ canvasWithThumbnail = <<>>
    /\ updateTimeout = 0
    /\ cardObserver = 0
    /\ observers = {}
    /\ phase = "loaded"

Init ==
    /\ Fresh
    /\ files = <<PathAlpha>>
    /\ contents \in [{PathAlpha} -> EditedDocs]
    /\ dom = [container |-> TRUE, cards |-> <<>>]
    /\ prevDom = dom
    /\ adapterFS = TRUE

\* the clock and the burst's history stand still
Untimed == UNCHANGED <<now, burstVars>>
\* the same for a step in which no scan runs
Other == Untimed /\ lastScan' = NoScan

Next ==
    \/ InitializeCards /\ Untimed
    \/ \E t \in BagToSet(tasks) : ScanResume(t) /\ Untimed
    \/ LayoutChange /\ Other
    \/ \E i \in 1..Len(getFiles) : \E doc \in EditedDocs :
          Modify(getFiles[i], doc) /\ Other
    \/ \E card \in HostCards : InsertCard(card) /\ Other
    \/ RefreshClick /\ Untimed
    \/ \E t \in timers : FireDecorate(t) /\ Other
    \/ \E t \in timers : FireUpdate(t) /\ Other
    \/ \E t \in timers : FireCanvas(t) /\ Untimed
    \/ Unload /\ Other

\* a counted call, at the time now
Counted ==
    /\ calls' = calls + 1
    /\ lastCall' = now
    /\ UNCHANGED <<now, passes, passTime, prevDom>>
    /\ lastScan' = NoScan

\* The running plugin with the real-time-update setting as loaded; the
\* settings tab's toggle is exercised in SpecSettings.
Spec == Init /\ [][Next]_vars

\* the observer's life: start-up, up to MaxCalls changes of the toggle, card
\* insertions, unload
NextSettings ==
    \/ InitializeCards /\ Untimed
    \/ \E t \in BagToSet(tasks) : ScanResume(t) /\ Untimed
    \/ calls < MaxCalls /\ ToggleChange /\ Counted
    \/ \E t \in BagToSet(tasks) : ToggleResume(t) /\ Other
    \/ \E card \in HostCards : InsertCard(card) /\ Other
    \/ \E t \in timers : FireDecorate(t) /\ Other
    \/ \E t \in timers : FireUpdate(t) /\ Other
    \/ Unload /\ Other

SpecSettings == Init /\ [][NextSettings]_vars

Quiescent == timers = {} /\ NoTasks

Marked(i) == dom.cards[i].marker # Null

\* C1: every 'modify' of a canvas document is followed by a rescan that
\* starts after it and then by a decoration pass.  As a final result: once
\* initializeCards has been called and nothing is pending any more in the
\* loaded plugin, no modification is left without its rescan and no scan
\* without its pass.
C1_RescanNeverLost ==
    (phase = "ready" /\ Quiescent) => (~dirty /\ ~needReconcile)

\* C3: after onunload() no timer is pending, no observer is connected and no
\* element carries the data-canvas-thumbnail marker.
C3_UnloadLeavesNothing ==
    phase = "unloaded" =>
        /\ timers = {}
        /\ observers = {}
        /\ \A i \in 1..Len(dom.cards) : ~Marked(i)

\* C5: when a scanCanvasFiles call returns, the map holds exactly the entries
\* that call wrote.
C5_ScanResultIsOwn ==
    lastScan.valid => MapEntries(canvasWithThumbnail) = lastScan.produced

\* C7: a cover that carries the marker keeps its marker, its data-image-path
\* and its background image in every step but onunload's cleanup.
C7_MarkedCoverUntouched ==
    [][\A i \in 1..Len(dom.cards) :
          (Marked(i) /\ phase' = phase) =>
              /\ i <= Len(dom'.cards)
              /\ dom'.cards[i].marker = dom.cards[i].marker
              /\ dom'.cards[i].imagePath = dom.cards[i].imagePath
              /\ dom'.cards[i].bg = dom.cards[i].bg]_vars

\* C7's case: a pass has run over a marked cover whose document the map now
\* gives another image, and the cover still shows the old one.
C7_Witness ==
    /\ Quiescent /\ ~needReconcile /\ ~dirty
    /\ \E i \in 1..Len(dom.cards) :
          /\ Marked(i)
          /\ MapHas(canvasWithThumbnail, dom.cards[i].marker)
          /\ MapGet(canvasWithThumbnail, dom.cards[i].marker)
                # dom.cards[i].imagePath

\* C8: after an edit and its completed scan-then-decorate cycle, every
\* marked cover shows the image the map gives its canvas path, and no cover
\* is marked for a path the map does not hold.
C8_ThumbnailsCurrent ==
    ( /\ Loaded /\ Quiescent /\ ~dirty /\ ~needReconcile
      /\ canvasWithThumbnail = ScanOf(files, contents) )
    => \A i \in 1..Len(dom.cards) :
          Marked(i) =>
              /\ MapHas(canvasWithThumbnail, dom.cards[i].marker)
              /\ MapGet(canvasWithThumbnail, dom.cards[i].marker)
                    = dom.cards[i].imagePath

\* ------------------------------------------------- a burst of scheduleUpdate

\* The plugin at rest: initializeCards has run, its scan has returned and
\* the timer it armed has fired.
AtRest ==
    /\ Still
    /\ phase = "ready"
    /\ updateTimeout = 1
    /\ cardObserver = (IF settings.enableRealTimeUpdate THEN 1 ELSE 0)
    /\ observers = (IF settings.enableRealTimeUpdate THEN {1} ELSE {})
    /\ adapterFS \in BOOLEAN

InitBurst ==
    /\ AtRest
    /\ files = <<PathAlpha, PathBeta>>
    /\ contents = [p \in {PathAlpha, PathBeta} |->
                      Doc("ok", <<FileNode("cover.png")>>)]
    /\ canvasWithThumbnail = ScanOf(files, contents)
    /\ dom = [container |-> TRUE, cards |-> <<>>]
    /\ prevDom = dom

\* a call of the burst: the first one, or one that finds the chain of the
\* previous call unfinished
InBurst ==
    /\ calls < MaxCalls
    /\ calls = 0 \/ timers # {}
    /\ now + UpdateDelay + DecorateDelay <= MaxTime


\* 100 ms pass
Tick ==
    /\ now < MaxTime
    /\ now' = now + 1
    /\ UNCHANGED <<files, contents, canvasWithThumbnail, settings, updateTimeout,
                   timers, cardObserver, observers, tasks, dom, adapterFS, phase,
                   updatedCount, dirty, needReconcile, lastScan, burstVars>>

\* a decoration pass, counted
Pass ==
    /\ passes' = passes + 1
    /\ passTime' = now
    /\ prevDom' = dom
    /\ UNCHANGED <<now, calls, lastCall>>
    /\ lastScan' = NoScan

NextBurst ==
    \/ InBurst /\ LayoutChange /\ Counted
    \/ \E card \in HostCards :
          InBurst /\ observers # {} /\ InsertCard(card) /\ Counted
    \/ Tick
    \/ \E t \in timers : now >= t.due /\ FireUpdate(t) /\ Other
    \/ \E t \in timers : now >= t.due /\ FireDecorate(t) /\ Pass

SpecBurst == InitBurst /\ [][NextBurst]_vars

\* C2: a burst of scheduleUpdate() calls, each arriving before the chain of
\* the one before has finished, runs addCardThumbnails exactly once, and not
\* before the delay of the last call has elapsed.
C2_OnePassAfterLastCall ==
    /\ passes <= 1
    /\ (calls >= 1 /\ timers = {}) => passes = 1
    /\ passes = 1 => passTime >= lastCall + UpdateDelay

\* C2's case: a burst of several calls whose single pass has run
C2_Witness == calls >= 2 /\ passes = 1 /\ timers = {}

\* ------------------------------------------------- the scanner's input space

Permutations3(a, b, c) ==
    { <<a, b, c>>, <<a, c, b>>, <<b, a, c>>, <<b, c, a>>, <<c, a, b>>, <<c, b, a>> }

\* documents beside the one under test
PlainDocs ==
    { Doc("ok", <<FileNode("cover.png")>>), Doc("ok", <<>>),
      Doc("parsefail", <<>>), Doc("readfail", <<>>) }

\* The plugin at rest over any vault; the map is what the scan of earlier
\* contents left.
InitScan ==
    /\ AtRest
    /\ adapterFS
    /\ files \in Permutations3(PathAlpha, PathBeta, PathOdd)
    /\ \E a \in AllDocs, b \in PlainDocs, c \in PlainDocs :
          contents = (PathAlpha :> a) @@ (PathBeta :> b) @@ (PathOdd :> c)
    /\ canvasWithThumbnail =
          ScanOf(files, [p \in {PathAlpha, PathBeta, PathOdd} |->
                            Doc("ok", <<FileNode("pic.JPG")>>)])
    /\ dom = [container |-> TRUE, cards |-> <<>>]
    /\ prevDom = dom

\* one scan, started by the refresh button, and nothing else
NextScan ==
    \/ Quiescent /\ RefreshClick /\ Untimed
    \/ \E t \in BagToSet(tasks) : ScanResume(t) /\ Untimed

SpecScan == InitScan /\ [][NextScan]_vars

\* a file node whose target is in the vault with a picture extension
Qualifies(node) ==
    /\ node.type = "file"
    /\ \E e \in VaultEntries :
          /\ e.path = node.file
          /\ ~e.folder
          /\ ToLowerCase(e.extension) \in pictureExtensions

QualifyingNodes(doc) ==
    IF doc.kind = "ok"
    THEN {i \in 1..Len(doc.nodes) : Qualifies(doc.nodes[i])}
    ELSE {}

FirstOf(S) == CHOOSE i \in S : \A j \in S : i <= j

\* C4: after one scan the map has an entry for a canvas path exactly when the
\* document's node list has a file node whose target exists with a picture
\* extension, and the value is the target of the first such node.
C4_FirstImageNode ==
    lastScan.valid =>
        \A p \in DOMAIN contents :
            LET Q == QualifyingNodes(contents[p])
            IN  /\ MapHas(canvasWithThumbnail, p) <=> Q # {}
                /\ Q # {} => MapGet(canvasWithThumbnail, p)
                                = contents[p].nodes[FirstOf(Q)].file

Failing(doc) == doc.kind \in {"readfail", "parsefail"}

Without(fs, f) == SelectSeq(fs, LAMBDA p : p # f)

\* C10: a document that fails to read or parse contributes no entry, and
\* every other document gets the entry it gets when the failing one is not in
\* the vault, wherever the failing one stands.
C10_FailureIsolated ==
    lastScan.valid =>
        \A f \in DOMAIN contents :
            Failing(contents[f]) =>
                /\ ~MapHas(canvasWithThumbnail, f)
                /\ LET expected == ScanOf(Without(files, f), contents)
                   IN  \A p \in DOMAIN contents \ {f} :
                          /\ MapHas(canvasWithThumbnail, p) <=> MapHas(expected, p)
                          /\ MapHas(expected, p) =>
                                MapGet(canvasWithThumbnail, p) = MapGet(expected, p)

\* C10's case: the scan has returned, the first document failed and a later
\* one has its entry
C10_Witness ==
    /\ lastScan.valid
    /\ Failing(contents[files[1]])
    /\ MapHas(canvasWithThumbnail, files[3])

\* ---------------------------------------------- the reconciler's input space

\* what a card's file-name element may show; Null: the card has none
ShownNames ==
    { <<"Alpha">>, <<" ", "Alpha", " ">>, <<"Beta">>, <<"Alpha", "Beta">>,
      <<"Alpha", ".canvas", "Beta">>, Null }

\* cards with a cover in the container, one without a cover, one elsewhere
ShownCards ==
    {Card(n, TRUE, TRUE) : n \in ShownNames}
    \cup {Card(<<"Alpha">>, FALSE, TRUE), Card(<<"Alpha">>, TRUE, FALSE)}

CardLists == UNION {[1..n -> ShownCards] : n \in 0..MaxShown}

\* the documents with an image, as the entry a scan writes for each
ScannedEntries ==
    {[k |-> p, v |-> "cover.png"] :
        p \in {PathAlpha, PathBeta, PathAlphaBeta, PathOdd}}
    \cup {[k |-> PathAlpha, v |-> "pic.JPG"]}

EntryLists ==
    {m \in UNION {[1..n -> ScannedEntries] : n \in 0..MaxEntries} :
        \A i, j \in 1..Len(m) : m[i].k = m[j].k => i = j}

\* The plugin at rest over a vault whose scan gave the map, with any cards
\* on display, none of them decorated yet.
InitReconcile ==
    /\ AtRest
    /\ ~settings.enableRealTimeUpdate
    /\ canvasWithThumbnail \in EntryLists
    /\ files = [i \in 1..Len(canvasWithThumbnail) |-> canvasWithThumbnail[i].k]
    /\ contents = [p \in {files[i] : i \in 1..Len(files)} |->
                      Doc("ok", <<FileNode(MapGet(canvasWithThumbnail, p))>>)]
    /\ dom \in {d \in [container : BOOLEAN, cards : CardLists] :
                  d.container \/ \A i \in 1..Len(d.cards) : ~d.cards[i].inside}
    /\ prevDom = dom

\* layout changes, each followed by its pass, and nothing in between
NextReconcile ==
    \/ passes < MaxPasses /\ Quiescent /\ LayoutChange /\ Other
    \/ \E t \in timers : FireUpdate(t) /\ Other
    \/ \E t \in timers : FireDecorate(t) /\ Pass

SpecReconcile == InitReconcile /\ [][NextReconcile]_vars

\* C6: a second pass over the same map and DOM leaves the DOM as the first
\* pass left it and counts zero updated cards.
C6_SecondPassNoop ==
    passes >= 2 => (dom = prevDom /\ updatedCount = 0)

\* the final path segment with the canvas suffix stripped
SuffixStripped(path) ==
    LET seg == LastSegment(path)
    IN  IF seg # <<>> /\ seg[Len(seg)] = ".canvas"
        THEN SubSeq(seg, 1, Len(seg) - 1)
        ELSE seg

NameHasKey(card, key) ==
    /\ card.inside
    /\ card.name # Null
    /\ (Trim(card.name) = key \/ Includes(Trim(card.name), key))

\* the first card in document order whose name equals or contains the key
FirstWithKey(cards, key) ==
    LET S == {i \in 1..Len(cards) : NameHasKey(cards[i], key)}
    IN  IF S = {} THEN 0 ELSE FirstOf(S)

\* C9: for each entry the pass considers the first card whose trimmed name
\* equals or contains the entry's key, the final path segment without the
\* canvas suffix: a cover marked for an entry is that card's, and when the
\* covers can be decorated that card's cover is marked after the pass.
C9_FirstMatchBySuffixKey ==
    passes = 1 =>
        /\ \A i \in 1..Len(dom.cards) :
              Marked(i) =>
                  FirstWithKey(prevDom.cards, SuffixStripped(dom.cards[i].marker)) = i
        /\ (adapterFS /\ dom.container) =>
              \A e \in MapEntries(canvasWithThumbnail) :
                  LET i == FirstWithKey(prevDom.cards, SuffixStripped(e.k))
                  IN  (i # 0 /\ dom.cards[i].cover) => Marked(i)

\* the covers that carry the marker in d
MarkedIn(d) == {i \in 1..Len(d.cards) : d.cards[i].marker # Null}

\* C11: the count a pass reports is the number of covers that gained the
\* marker in that pass; without a FileSystemAdapter the pass changes no cover
\* and reports 0.
C11_CountIsNewlyMarked ==
    passes >= 1 =>
        /\ updatedCount = Cardinality(MarkedIn(dom) \ MarkedIn(prevDom))
        /\ ~adapterFS => (dom = prevDom /\ updatedCount = 0)

\* C12: an observer is connected only while enableRealTimeUpdate is true, in
\* every state, also while saveSettings is awaited; and once initializeCards
\* and every toggle handler have finished, an observer is connected exactly
\* when the setting is true.
C12_ObserverFollowsSetting ==
    /\ observers # {} => settings.enableRealTimeUpdate
    /\ (phase = "ready" /\ NoTasks) =>
          (observers # {} <=> settings.enableRealTimeUpdate)

\* C17: at most one observer of the plugin is connected, and it is the one
\* this.cardObserver names.
C17_OneObserver ==
    /\ Cardinality(observers) <= 1
    /\ \A o \in observers : o = cardObserver

\* C17's case: the setting was off at first and has been switched on, off and
\* on; both switch-on handlers have run setupCardObserver, the second over
\* the observer handle the first left.
C17_Witness ==
    /\ calls = 3 /\ NoTasks
    /\ settings.enableRealTimeUpdate
    /\ observers # {}

\* C18: without a cards container a pass changes no element, counts nothing
\* and leaves the map as the scan wrote it, also when cards that match map
\* entries stand elsewhere in the document.
C18_NoContainerNoChange ==
    (passes >= 1 /\ ~prevDom.container) =>
        /\ dom = prevDom
        /\ updatedCount = 0
        /\ canvasWithThumbnail = ScanOf(files, contents)

\* C18's case: a pass has run without a container over a card elsewhere
\* whose name matches an entry and whose cover is not decorated
C18_Witness ==
    /\ passes >= 1 /\ ~prevDom.container /\ adapterFS
    /\ \E e \in MapEntries(canvasWithThumbnail) :
          \E i \in 1..Len(prevDom.cards) :
              LET card == prevDom.cards[i]
              IN  /\ ~card.inside /\ card.cover /\ card.name # Null
                  /\ Trim(card.name) = getFileNameFromPath(e.k)

\* ------------------------------------------------- decorating and clearing

\* A caller of the exported clearAllThumbnails().
ClearAll ==
    /\ dom' = clearAllThumbnails(dom)
    /\ UNCHANGED <<vaultVars, canvasWithThumbnail, settings, schedVars, obsVars,
                   tasks, adapterFS, phase, updatedCount, histVars>>

\* The host loads the plugin again after a completed unload: a new instance
\* with its fields as constructed, over the same document.
Reload ==
    /\ phase = "unloaded" /\ Quiescent /\ observers = {}
    /\ phase' = "loaded"
    /\ canvasWithThumbnail' = <<>>
    /\ updateTimeout' = 0
    /\ cardObserver' = 0
    /\ UNCHANGED <<vaultVars, settings, timers, observers, tasks, dom, adapterFS,
                   updatedCount, histVars>>

\* the cards on display: two with a cover, one without
ClearedCards ==
    { Card(<<"Alpha">>, TRUE, TRUE), Card(<<"Beta">>, TRUE, TRUE),
      Card(<<"Alpha">>, FALSE, TRUE) }

\* The plugin at rest over two documents with an image each, with any cards
\* on display, none of them decorated yet.
InitClear ==
    /\ AtRest
    /\ ~settings.enableRealTimeUpdate
    /\ files = <<PathAlpha, PathBeta>>
    /\ contents = (PathAlpha :> Doc("ok", <<FileNode("cover.png")>>))
                  @@ (PathBeta :> Doc("ok", <<FileNode("pic.JPG")>>))
    /\ canvasWithThumbnail = ScanOf(files, contents)
    /\ \E cs \in UNION {[1..n -> ClearedCards] : n \in 0..MaxShown} :
          dom = [container |-> TRUE, cards |-> cs]
    /\ prevDom = dom

\* passes over the cards, clears, unload and reload
NextClear ==
    \/ passes < MaxPasses /\ Quiescent /\ LayoutChange /\ Other
    \/ \E t \in timers : FireUpdate(t) /\ Other
    \/ \E t \in timers : passes < MaxPasses /\ FireDecorate(t) /\ Pass
    \/ ClearAll /\ Other
    \/ Unload /\ Other
    \/ Reload /\ Other
    \/ InitializeCards /\ Untimed
    \/ \E t \in BagToSet(tasks) : ScanResume(t) /\ Untimed

SpecClear == InitClear /\ [][NextClear]_vars

\* C13: onunload's cleanup and clearAllThumbnails leave no marker, reset the
\* background of every cover that had one, change nothing when no cover is
\* marked, and a second clear changes nothing more.
C13_ClearRemovesAll ==
    [][(ClearAll \/ Unload) =>
          /\ \A i \in 1..Len(dom'.cards) : dom'.cards[i].marker = Null
          /\ \A i \in MarkedIn(dom) : dom'.cards[i].bg = ""
          /\ MarkedIn(dom) = {} => dom' = dom
          /\ clearAllThumbnails(dom') = dom'
          /\ UnloadCleanup(dom') = dom']_vars

\* C13's case: onunload has cleared a decorated cover
C13_Witness ==
    /\ phase = "unloaded"
    /\ \E i \in 1..Len(dom.cards) :
          /\ dom.cards[i].imagePath # NoAttr
          /\ dom.cards[i].marker = Null
          /\ dom.cards[i].bg = ""

\* C19: an element carries data-image-path exactly when it carries the
\* data-canvas-thumbnail marker.
C19_AttributesTogether ==
    \A i \in 1..Len(dom.cards) :
        dom.cards[i].imagePath # NoAttr <=> dom.cards[i].marker # Null

\* --------------------------------------------------- scans and the one timer

\* a scanCanvasFiles call is suspended at a read
ScanInFlight == \E t \in BagToSet(tasks) : t.kind = "scan"

\* C14: while a scan is in flight no second scan starts and no decoration
\* pass runs.
C14_ScanRunsAlone ==
    [][ScanInFlight =>
          /\ ~RefreshClick
          /\ ~(\E t \in timers : FireCanvas(t))
          /\ ~(\E t \in timers : FireDecorate(t))]_vars

\* C15: at most one timer is pending, and it is the one this.updateTimeout
\* names: the most recently armed one.
C15_OneTimerPending ==
    /\ Cardinality(timers) <= 1
    /\ \A t \in timers : t.id = updateTimeout

\* C15's case: a 'modify' armed the rescan timer, no scan has started since,
\* and the one pending timer is another that replaced it
C15_Witness ==
    /\ dirty
    /\ \E t \in timers : t.kind # "canvas"

\* ------------------------------------------------------ triggers on a clock

\* the plugin at rest over one document, no card on display yet
InitDebounce ==
    /\ AtRest
    /\ adapterFS
    /\ files = <<PathAlpha>>
    /\ contents = (PathAlpha :> Doc("ok", <<FileNode("cover.png")>>))
    /\ canvasWithThumbnail = ScanOf(files, contents)
    /\ dom = [container |-> TRUE, cards |-> <<>>]
    /\ prevDom = dom

\* Up to MaxCalls triggers of any kind at any times; timers fire when due,
\* reads resolve at any time.
NextDebounce ==
    \/ calls < MaxCalls /\ LayoutChange /\ Counted
    \/ \E i \in 1..Len(getFiles) : \E doc \in EditedDocs :
          calls < MaxCalls /\ Modify(getFiles[i], doc) /\ Counted
    \/ \E card \in HostCards :
          calls < MaxCalls /\ observers # {} /\ InsertCard(card) /\ Counted
    \/ calls < MaxCalls /\ RefreshClick /\ Counted
    \/ Tick
    \/ \E t \in BagToSet(tasks) : ScanResume(t) /\ Untimed
    \/ \E t \in timers : now >= t.due /\ FireUpdate(t) /\ Other
    \/ \E t \in timers : now >= t.due /\ FireCanvas(t) /\ Untimed
    \/ \E t \in timers : now >= t.due /\ FireDecorate(t) /\ Other

SpecDebounce == InitDebounce /\ [][NextDebounce]_vars

\* C16, the postponement: triggers that keep arriving closer together than
\* the armed delay keep the pass from running; the shortest delay armed is
\* that of updateCardThumbnails, so no pass runs sooner than that after a
\* trigger.
C16_TriggersPostponePass ==
    [][(calls >= 1 /\ \E t \in timers : FireDecorate(t)) =>
          now >= lastCall + DecorateDelay]_vars

====
